---- MODULE Spec2Model ----
(***************************************************************************)
(* A model of ComponentWorkerV3 (src/core/componentWorkerV3.js): the batch *)
(* orchestrator processStructuredData, the optimization loop               *)
(* performAdaptiveOptimization, the quality evaluator and the variant      *)
(* generator.                                                              *)
(*                                                                         *)
(* Representation.                                                         *)
(*  - A JavaScript value is a record [t, v]: t is its type, v its payload. *)
(*    A string is the sequence of its characters, so that replace, substr, *)
(*    parseInt and toString(16) are computed as the code computes them.    *)
(*  - A score of the evaluator is a record [threw, nan, v]: threw says the *)
(*    computation raised a TypeError, nan says the result is NaN, and v is *)
(*    the number in units of 1/ScoreScale (sub-scores) or 1/QScale         *)
(*    (qualities).  IEEE doubles are modelled by these fixed-point numbers *)
(*    and by exact rational arithmetic before every Math.round.            *)
(***************************************************************************)
EXTENDS Integers, Sequences, FiniteSets, TLC

\* ------------------------------------------------------------------------
\* Bounds of the model
\* ------------------------------------------------------------------------

\* the largest number of elements of one analysis (analysis.elements.length)
MaxElements == 2

\* ------------------------------------------------------------------------
\* JavaScript values
\* ------------------------------------------------------------------------

Undef == [t |-> "undefined", v |-> 0]
Num(n) == [t |-> "number", v |-> n]
Str(s) == [t |-> "string", v |-> s]
\* a non-null object or array ({} and [] are truthy)
Obj == [t |-> "object", v |-> 0]

IsStr(x) == x.t = "string"
IsNum(x) == x.t = "number"

\* a === b: the types are compared first, the values only for one type
Same(a, b) == a.t = b.t /\ a.v = b.v

\* ToBoolean: undefined, 0 and "" are falsy
Truthy(x) ==
  CASE x.t = "undefined" -> FALSE
    [] x.t = "number" -> x.v # 0
    [] x.t = "string" -> x.v # <<>>
    [] OTHER -> TRUE

\* x || d
OrElse(x, d) == IF Truthy(x) THEN x ELSE d

Max(a, b) == IF a >= b THEN a ELSE b
Min(a, b) == IF a <= b THEN a ELSE b
Abs(a) == IF a >= 0 THEN a ELSE -a

\* ------------------------------------------------------------------------
\* Characters
\* ------------------------------------------------------------------------

HexDigits == <<"0","1","2","3","4","5","6","7","8","9","a","b","c","d","e","f">>

\* the value of a hexadecimal digit, -1 for any other character
HexVal(c) ==
  IF \E i \in 1..16 : HexDigits[i] = c
  THEN (CHOOSE i \in 1..16 : HexDigits[i] = c) - 1
  ELSE IF c = "A" THEN 10 ELSE IF c = "B" THEN 11 ELSE IF c = "C" THEN 12
  ELSE IF c = "D" THEN 13 ELSE IF c = "E" THEN 14 ELSE IF c = "F" THEN 15
  ELSE -1

\* the value of a decimal digit, -1 for any other character
DecVal(c) == IF HexVal(c) \in 0..9 THEN HexVal(c) ELSE -1

LowerLetters == <<"a","b","c","d","e","f","g","h","i","j","k","l","m",
                  "n","o","p","q","r","s","t","u","v","w","x","y","z">>
UpperLetters == <<"A","B","C","D","E","F","G","H","I","J","K","L","M",
                  "N","O","P","Q","R","S","T","U","V","W","X","Y","Z">>

IsLower(c) == \E i \in 1..26 : LowerLetters[i] = c
IsUpper(c) == \E i \in 1..26 : UpperLetters[i] = c

\* String.prototype.toUpperCase on one character
ToUpper(c) ==
  IF IsLower(c) THEN UpperLetters[CHOOSE i \in 1..26 : LowerLetters[i] = c] ELSE c

\* the character class [a-zA-Z0-9]
IsAlnum(c) == IsLower(c) \/ IsUpper(c) \/ DecVal(c) >= 0

\* s.substr(from, len) with a 0-based from
Substr(s, from, len) == SubSeq(s, from + 1, Min(Len(s), from + len))

\* s.replace('#', ''): the first occurrence only
RemoveFirstHash(s) ==
  IF \E i \in 1..Len(s) : s[i] = "#"
  THEN LET k == CHOOSE i \in 1..Len(s) : s[i] = "#" /\ \A j \in 1..(i-1) : s[j] # "#"
       IN SubSeq(s, 1, k - 1) \o SubSeq(s, k + 1, Len(s))
  ELSE s

\* s.replace(/[^a-zA-Z0-9]/g, '')
RECURSIVE StripNonAlnum(_)
StripNonAlnum(s) ==
  IF s = <<>> THEN <<>>
  ELSE (IF IsAlnum(Head(s)) THEN <<Head(s)>> ELSE <<>>) \o StripNonAlnum(Tail(s))

\* parseInt(s, 16) for a string of at most two characters: the leading
\* hexadecimal digits, NaN (-1 here) when there is none; "0x" is a prefix
\* with no digit after it
ParseHex2(s) ==
  IF s = <<>> \/ HexVal(s[1]) < 0 THEN -1
  ELSE IF Len(s) = 1 THEN HexVal(s[1])
  ELSE IF s[1] = "0" /\ s[2] \in {"x", "X"} THEN -1
  ELSE IF HexVal(s[2]) < 0 THEN HexVal(s[1])
  ELSE 16 * HexVal(s[1]) + HexVal(s[2])

\* the number of leading decimal digits of s
RECURSIVE LeadingDigits(_)
LeadingDigits(s) ==
  IF s = <<>> \/ DecVal(Head(s)) < 0 THEN 0 ELSE 1 + LeadingDigits(Tail(s))

RECURSIVE DecValue(_, _)
DecValue(s, acc) ==
  IF s = <<>> THEN acc ELSE DecValue(Tail(s), 10 * acc + DecVal(Head(s)))

\* parseInt(x) || dflt for a string or a number x: the leading integer, and
\* dflt when there is none (NaN) or when it is 0
ParseIntOr(x, dflt) ==
  LET n == IF IsNum(x) THEN x.v
           ELSE IF IsStr(x) /\ LeadingDigits(x.v) > 0
                THEN DecValue(SubSeq(x.v, 1, LeadingDigits(x.v)), 0)
                ELSE 0
  IN IF n = 0 THEN dflt ELSE n

\* n.toString(16).padStart(2, '0') for 0 <= n <= 255
Hex2(n) == <<HexDigits[(n \div 16) + 1], HexDigits[(n % 16) + 1]>>

RECURSIVE DecDigits(_)
\* String(n) for n >= 0
DecDigits(n) ==
  IF n < 10 THEN <<HexDigits[n + 1]>> ELSE DecDigits(n \div 10) \o <<HexDigits[(n % 10) + 1]>>

\* ------------------------------------------------------------------------
\* Scores: fixed-point numbers that may be NaN, or a raised TypeError
\* ------------------------------------------------------------------------

\* one unit of a sub-score is 1/ScoreScale, one unit of a quality 1/QScale
ScoreScale == 1000000
QScale == 100000000

Sc(n) == [threw |-> FALSE, nan |-> FALSE, v |-> n]
ScNaN == [threw |-> FALSE, nan |-> TRUE, v |-> 0]
ScThrow == [threw |-> TRUE, nan |-> FALSE, v |-> 0]

IsNumber(s) == ~s.threw /\ ~s.nan

\* a > b and a >= b of JavaScript: false as soon as one side is NaN
ScGt(a, b) == IsNumber(a) /\ IsNumber(b) /\ a.v > b.v
ScGe(a, b) == IsNumber(a) /\ IsNumber(b) /\ a.v >= b.v

\* the weighted sum of the scores terms[i].s with the integer weights
\* terms[i].w, divided by div
RECURSIVE WeightedTotal(_)
WeightedTotal(terms) ==
  IF terms = <<>> THEN 0 ELSE terms[1].w * terms[1].s.v + WeightedTotal(Tail(terms))

WeightedSum(terms, div) ==
  IF \E i \in 1..Len(terms) : terms[i].s.threw THEN ScThrow
  ELSE IF \E i \in 1..Len(terms) : terms[i].s.nan THEN ScNaN
  ELSE Sc(WeightedTotal(terms) \div div)

\* the largest x in lo..hi with x * x <= n
RECURSIVE SqrtBetween(_, _, _)
SqrtBetween(n, lo, hi) ==
  IF lo >= hi THEN lo
  ELSE LET mid == (lo + hi + 1) \div 2
       IN IF mid * mid <= n THEN SqrtBetween(n, mid, hi) ELSE SqrtBetween(n, lo, mid - 1)

\* floor(sqrt(n)) for 0 <= n < 2^31
ISqrt(n) == SqrtBetween(n, 0, 46340)

\* Math.max(0, 1 - mult * (Math.abs(p - t) / t)) for numbers p and t:
\* a division by 0 gives Infinity (score 0) or, for 0 / 0, NaN; a negative
\* t makes the relative error negative and the score larger than 1
RelativeScore(p, t, mult) ==
  LET d == Abs(p - t)
  IN IF t = 0 THEN (IF d = 0 THEN ScNaN ELSE Sc(0))
     ELSE IF t > 0 THEN Sc(Max(0, ScoreScale - (mult * ScoreScale * d) \div t))
     ELSE Sc(ScoreScale + (mult * ScoreScale * d) \div (-t))

\* ------------------------------------------------------------------------
\* Elements and parameter sets
\* ------------------------------------------------------------------------

PropNames == {"title", "text", "value", "color", "backgroundColor", "textColor",
              "fontSize", "fontWeight", "borderRadius", "border", "padding",
              "margin", "data", "config", "columns"}

\* the keys of baseParams, and the key parameters of optimizationParams
\* that extractBaseParams never sets (read as undefined)
ParamNames == PropNames \cup {"width", "height"}
AllParamNames == ParamNames \cup {"styling", "lineHeight", "objectFit"}

\* the object {k: f[k]} without the keys whose value is undefined
ObjOf(f) == [t |-> "object", v |-> f]

\* obj?.name
Field(obj, name) == IF obj.t = "undefined" THEN Undef ELSE obj.v[name]

NoProps == [n \in PropNames |-> Undef]
NoPos == [width |-> Undef, height |-> Undef]

\* Object.keys(obj || {}).length
KeyCount(obj) ==
  IF obj.t = "undefined" THEN 0
  ELSE Cardinality({n \in DOMAIN obj.v : obj.v[n].t # "undefined"})

\* ------------------------------------------------------------------------
\* The quality evaluator
\* ------------------------------------------------------------------------

evaluateSizeMatch(params, position) ==
  IF ~Truthy(position) THEN Sc(0)
  ELSE LET axis(p, t) == IF ~IsNum(t) \/ ~IsNum(p) THEN ScNaN
                         ELSE RelativeScore(p.v, t.v, 2)
       IN WeightedSum(<<[w |-> 1, s |-> axis(params["width"], position.v.width)],
                        [w |-> 1, s |-> axis(params["height"], position.v.height)]>>, 2)

\* Math.sqrt(255**2 * 3) in hundredths
MaxDistance100 == 44167

calculateColorSimilarity(color1, color2) ==
  IF Same(color1, color2) THEN Sc(ScoreScale)
  ELSE IF ~IsStr(color1) \/ ~IsStr(color2) THEN ScThrow
  ELSE
    LET hex1 == RemoveFirstHash(color1.v)
        hex2 == RemoveFirstHash(color2.v)
        ch(h, i) == ParseHex2(Substr(h, i, 2))
        sq(a, b) == (a - b) * (a - b)
        d2 == sq(ch(hex1, 0), ch(hex2, 0)) + sq(ch(hex1, 2), ch(hex2, 2))
              + sq(ch(hex1, 4), ch(hex2, 4))
    IN IF Len(hex1) = 6 /\ Len(hex2) = 6
       THEN IF \E i \in {0, 2, 4} : ch(hex1, i) < 0 \/ ch(hex2, i) < 0
            THEN ScNaN
            ELSE Sc(Max(0, ScoreScale
                           - 100 * ((ISqrt(d2 * 10000) * 10000) \div MaxDistance100)))
       ELSE Sc(ScoreScale \div 2)

\* the checks of one evaluate...Match: those whose two sides are truthy
Performed(checks) == SelectSeq(checks, LAMBDA c : Truthy(c.a) /\ Truthy(c.b))

evaluateColorMatch(params, properties) ==
  IF properties.t = "undefined" THEN ScThrow
  ELSE
    LET chk(name, w) == [a |-> properties.v[name], b |-> params[name], w |-> w,
                         s |-> calculateColorSimilarity(properties.v[name], params[name])]
        done == Performed(<<chk("color", 5), chk("backgroundColor", 3), chk("textColor", 2)>>)
    IN IF Len(done) > 0 THEN WeightedSum(done, 10) ELSE Sc(ScoreScale \div 2)

evaluateTypographyMatch(params, properties) ==
  IF properties.t = "undefined" THEN ScThrow
  ELSE
    LET P == properties.v
        fontSize == [a |-> P["fontSize"], b |-> params["fontSize"], w |-> 4,
                     s |-> RelativeScore(ParseIntOr(params["fontSize"], 14),
                                         ParseIntOr(P["fontSize"], 14), 3)]
        fontWeight == [a |-> P["fontWeight"], b |-> params["fontWeight"], w |-> 3,
                       s |-> IF Same(P["fontWeight"], params["fontWeight"])
                             THEN Sc(ScoreScale) ELSE Sc(ScoreScale \div 2)]
        textColor == [a |-> P["textColor"], b |-> params["textColor"], w |-> 3,
                      s |-> calculateColorSimilarity(P["textColor"], params["textColor"])]
        done == Performed(<<fontSize, fontWeight, textColor>>)
    IN IF Len(done) > 0 THEN WeightedSum(done, 10) ELSE Sc(ScoreScale \div 2)

evaluateContentMatch(params, properties) ==
  IF properties.t = "undefined" THEN ScThrow
  ELSE
    LET chk(name, w) == [a |-> properties.v[name], b |-> params[name], w |-> w,
                         s |-> IF Same(properties.v[name], params[name])
                               THEN Sc(ScoreScale) ELSE Sc((7 * ScoreScale) \div 10)]
        done == Performed(<<chk("title", 4), chk("text", 3), chk("value", 3)>>)
    IN IF Len(done) > 0 THEN WeightedSum(done, 10) ELSE Sc(ScoreScale \div 2)

\* Math.max(0, Math.min(1, quality)): NaN stays NaN
Clamp01(q) == IF IsNumber(q) THEN Sc(Max(0, Min(QScale, q.v))) ELSE q

evaluateComponentQualityStrict(component, element) ==
  LET params == component.baseParams
  IN Clamp01(WeightedSum(
       <<[w |-> 40, s |-> evaluateSizeMatch(params, element.position)],
         [w |-> 25, s |-> evaluateColorMatch(params, element.properties)],
         [w |-> 20, s |-> evaluateTypographyMatch(params, element.properties)],
         [w |-> 15, s |-> evaluateContentMatch(params, element.properties)]>>, 1))

\* ------------------------------------------------------------------------
\* The tables of the constructor and of generateComponentName
\* ------------------------------------------------------------------------

\* one row per key of typeMapping: the type, its name in typeMap, its
\* component type, its builder in generateComponentCode and its entry in
\* optimizationParams (<<>> when it has none)
Catalogue == <<
  [type |-> <<"c","h","a","r","t">>,
   baseName |-> <<"C","h","a","r","t">>,
   componentType |-> "ChartComponent", builder |-> "generateChartCode",
   optimizationParams |-> <<"width", "height", "color", "data", "config">>],
  [type |-> <<"c","a","r","d">>,
   baseName |-> <<"C","a","r","d">>,
   componentType |-> "CardComponent", builder |-> "generateCardCode",
   optimizationParams |-> <<"width", "height", "padding", "borderRadius", "backgroundColor">>],
  [type |-> <<"t","a","b","l","e">>,
   baseName |-> <<"T","a","b","l","e">>,
   componentType |-> "TableComponent", builder |-> "generateTableCode",
   optimizationParams |-> <<"width", "height", "columns", "data", "styling">>],
  [type |-> <<"b","u","t","t","o","n">>,
   baseName |-> <<"B","u","t","t","o","n">>,
   componentType |-> "ButtonComponent", builder |-> "generateButtonCode",
   optimizationParams |-> <<"width", "height", "color", "backgroundColor", "borderRadius">>],
  [type |-> <<"h","e","a","d","e","r">>,
   baseName |-> <<"H","e","a","d","e","r">>,
   componentType |-> "HeaderComponent", builder |-> "generateHeaderCode",
   optimizationParams |-> <<>>],
  [type |-> <<"n","a","v","i","g","a","t","i","o","n">>,
   baseName |-> <<"N","a","v","i","g","a","t","i","o","n">>,
   componentType |-> "NavigationComponent", builder |-> "generateNavigationCode",
   optimizationParams |-> <<>>],
  [type |-> <<"s","i","d","e","b","a","r">>,
   baseName |-> <<"S","i","d","e","b","a","r">>,
   componentType |-> "SidebarComponent", builder |-> "generateSidebarCode",
   optimizationParams |-> <<>>],
  [type |-> <<"f","o","r","m">>,
   baseName |-> <<"F","o","r","m">>,
   componentType |-> "FormComponent", builder |-> "generateFormCode",
   optimizationParams |-> <<>>],
  [type |-> <<"i","n","p","u","t">>,
   baseName |-> <<"I","n","p","u","t">>,
   componentType |-> "InputComponent", builder |-> "generateInputCode",
   optimizationParams |-> <<>>],
  [type |-> <<"t","e","x","t">>,
   baseName |-> <<"T","e","x","t">>,
   componentType |-> "TextComponent", builder |-> "generateTextCode",
   optimizationParams |-> <<"fontSize", "fontWeight", "color", "lineHeight">>],
  [type |-> <<"i","m","a","g","e">>,
   baseName |-> <<"I","m","a","g","e">>,
   componentType |-> "ImageComponent", builder |-> "generateImageCode",
   optimizationParams |-> <<"width", "height", "objectFit", "borderRadius">>],
  [type |-> <<"c","o","n","t","a","i","n","e","r">>,
   baseName |-> <<"C","o","n","t","a","i","n","e","r">>,
   componentType |-> "ContainerComponent", builder |-> "generateContainerCode",
   optimizationParams |-> <<>>]>>

\* the row of a type, 0 when typeMapping has no such key (also for a type
\* that is not a string)
RowOf(type) ==
  IF IsStr(type) /\ \E i \in 1..Len(Catalogue) : Catalogue[i].type = type.v
  THEN CHOOSE i \in 1..Len(Catalogue) : Catalogue[i].type = type.v
  ELSE 0

\* this.typeMapping[type] || 'GenericComponent'
ComponentTypeOf(type) ==
  IF RowOf(type) = 0 THEN "GenericComponent" ELSE Catalogue[RowOf(type)].componentType

\* this.optimizationParams[type] || ['width', 'height']
OptimizationParamsOf(type) ==
  IF RowOf(type) = 0 \/ Catalogue[RowOf(type)].optimizationParams = <<>>
  THEN <<"width", "height">>
  ELSE Catalogue[RowOf(type)].optimizationParams

\* optimizationConfig.paramVariations.width (and height, fontSize), in percent
SizeFactors == <<80, 90, 95, 105, 110, 120>>

\* the keys of optimizationConfig.paramVariations
HasParamVariations(param) == param \in {"width", "height", "color", "fontSize"}

\* a faulty threshold: 0.99
QualityThresholdTooHigh == Sc(99 * (QScale \div 100))

\* optimizationConfig.qualityThreshold, the base quality of performBasicMapping,
\* the quality of a fallback component and of the main component
QualityThreshold == Sc(95 * (QScale \div 100))
BaseQuality == Sc(3 * (QScale \div 10))
FallbackQuality == Sc(QScale \div 10)
\* the quality of the main component, of the fallback
MainQualityOfFallback == Sc(QScale \div 10)
MainQuality == Sc(QScale)

\* ------------------------------------------------------------------------
\* Complexity
\* ------------------------------------------------------------------------

\* floor(e^k) for k = 0..14
ExpFloor == <<1, 2, 7, 20, 54, 148, 403, 1096, 2980, 8103, 22026, 59874,
              162754, 442413, 1202604>>

\* The complexity of an element is lin / 20 + 0.05 * ln(area1), cut at 1:
\* lin counts 0.1 per property, 0.3 for data and 0.2 for columns in
\* twentieths; Math.log gives NaN for area1 < 0 and -Infinity for area1 = 0.
analyzeComplexity(element) ==
  LET dim(name) == OrElse(Field(element.position, name), Num(0)).v
      area == dim("width") * dim("height")
  IN [lin |-> 2 * KeyCount(element.properties)
              + (IF Truthy(Field(element.properties, "data")) THEN 6 ELSE 0)
              + (IF Truthy(Field(element.properties, "columns")) THEN 4 ELSE 0),
      keys |-> KeyCount(element.properties),
      area1 |-> area + 1]

\* complexity < k / 20, for k = 6 (0.3) and k = 14 (0.7)
ComplexityLt(c, k) ==
  IF c.area1 < 0 THEN FALSE
  ELSE IF c.area1 = 0 THEN TRUE
  ELSE c.lin < k /\ k - c.lin <= 14 /\ c.area1 <= ExpFloor[k - c.lin + 1]

\* complexity > k / 20.  In doubles 7 * 0.1 is 0.7000000000000001, so that
\* seven properties and no area are already above 0.7.
ComplexityGt(c, k) ==
  IF c.area1 <= 0 THEN FALSE
  ELSE IF c.lin > k THEN TRUE
  ELSE IF c.lin = k THEN c.area1 > 1 \/ (c.keys = 7 /\ c.lin = 14)
  ELSE k - c.lin > 14 \/ c.area1 > ExpFloor[k - c.lin + 1]

Take(s, n) == SubSeq(s, 1, Min(n, Len(s)))

\* a faulty selection: the simple elements get the whole list
selectKeyParamsAllForSimple(element) ==
  LET allParams == OptimizationParamsOf(element.type)
      complexity == analyzeComplexity(element)
  IN IF ComplexityLt(complexity, 6) \/ ComplexityGt(complexity, 14) THEN allParams
     ELSE Take(allParams, (Len(allParams) + 1) \div 2)

selectKeyParams(element) ==
  LET allParams == OptimizationParamsOf(element.type)
      complexity == analyzeComplexity(element)
  IN IF ComplexityLt(complexity, 6) THEN Take(allParams, 2)
     ELSE IF ComplexityGt(complexity, 14) THEN allParams
     ELSE Take(allParams, (Len(allParams) + 1) \div 2)

\* a faulty budget: the middle class for every element
calculateMaxIterationsFlat(element) == 8

calculateMaxIterations(element) ==
  LET complexity == analyzeComplexity(element)
  IN IF ComplexityLt(complexity, 6) THEN 5
     ELSE IF ComplexityLt(complexity, 14) THEN 8
     ELSE 12

\* ------------------------------------------------------------------------
\* The variant generator
\* ------------------------------------------------------------------------

\* a faulty intensity: the progress counted from the 1-based iteration
calculateVariationIntensityOneBased(iteration, maxIterations, stagnationCount) ==
  [num |-> Min(30 * maxIterations,
               5 * maxIterations + 15 * (iteration + 1)
                 + 5 * stagnationCount * maxIterations),
   den |-> 100 * maxIterations]

\* The intensity as the fraction num / den, den = 100 * maxIterations:
\* Math.min(0.3, 0.05 + (iteration / maxIterations) * 0.15 + stagnationCount * 0.05)
calculateVariationIntensity(iteration, maxIterations, stagnationCount) ==
  [num |-> Min(30 * maxIterations,
               5 * maxIterations + 15 * iteration + 5 * stagnationCount * maxIterations),
   den |-> 100 * maxIterations]

\* Math.round(n / d) for d > 0: the nearest integer, a half rounded up
RoundDiv(n, d) == (2 * n + d) \div (2 * d)

\* Math.round(value * (1 + (factor / 100 - 1) * intensity))
ScaleBy(value, factor, intensity) ==
  RoundDiv(value * (100 * intensity.den + (factor - 100) * intensity.num),
           100 * intensity.den)

\* a channel of generateColorVariations as text: Math.min(255, ...) or
\* Math.max(0, ...) of Math.round(c * (1 + sign * intensity * 0.3)), then
\* toString(16).padStart(2, '0'); a channel that did not parse is NaN
ChannelText(c, sign, intensity) ==
  IF c < 0 THEN <<"N", "a", "N">>
  ELSE Hex2(Max(0, Min(255,
         RoundDiv(c * (10 * intensity.den + sign * 3 * intensity.num),
                  10 * intensity.den))))

\* the variations of a colour; startsWith raises on a value that is no string
generateColorVariations(baseColor, intensity) ==
  IF ~IsStr(baseColor) THEN [threw |-> TRUE, values |-> <<>>]
  ELSE IF baseColor.v # <<>> /\ baseColor.v[1] = "#"
  THEN LET hex == Tail(baseColor.v)
           ch(i) == ParseHex2(Substr(hex, i, 2))
           shade(sign) == Str(<<"#">> \o ChannelText(ch(0), sign, intensity)
                                      \o ChannelText(ch(2), sign, intensity)
                                      \o ChannelText(ch(4), sign, intensity))
       IN [threw |-> FALSE, values |-> <<baseColor, shade(1), shade(-1)>>]
  ELSE [threw |-> FALSE, values |-> <<baseColor>>]

generateParamVariations(param, currentValue, intensity) ==
  IF ~HasParamVariations(param) THEN [threw |-> FALSE, values |-> <<currentValue>>]
  ELSE IF param \in {"width", "height"}
  THEN [threw |-> FALSE,
        values |-> [i \in 1..Len(SizeFactors) |->
                      Num(ScaleBy(currentValue.v, SizeFactors[i], intensity))]]
  ELSE IF param = "fontSize"
  THEN LET size == ParseIntOr(currentValue, 14)
       IN [threw |-> FALSE,
           values |-> [i \in 1..Len(SizeFactors) |->
                         Str(DecDigits(ScaleBy(size, SizeFactors[i], intensity))
                             \o <<"p", "x">>)]]
  ELSE generateColorVariations(currentValue, intensity)

\* a faulty generator: the variations are written into one parameter object
\* that all the variants share, so that each variant shows the last variation
\* of every key parameter
generateAdaptiveVariantsShared(component, keyParams, variationIntensity) ==
  LET made(param) == generateParamVariations(param, component.baseParams[param],
                                             variationIntensity)
      last(param) == made(param).values[Len(made(param).values)]
      isKey(n) == \E k \in DOMAIN keyParams : keyParams[k] = n
      shared == [component EXCEPT
                   !.baseParams = [n \in DOMAIN @ |-> IF isKey(n) THEN last(n) ELSE @[n]]]
  IN IF \E k \in DOMAIN keyParams : made(keyParams[k]).threw
     THEN [threw |-> TRUE, values |-> <<>>]
     ELSE [threw |-> FALSE, values |-> [k \in DOMAIN keyParams |-> shared]]

\* the variants of component: one per key parameter and variation, each a
\* copy of component with that one parameter replaced
RECURSIVE generateAdaptiveVariants(_, _, _)
generateAdaptiveVariants(component, keyParams, variationIntensity) ==
  IF keyParams = <<>> THEN [threw |-> FALSE, values |-> <<>>]
  ELSE
    LET param == Head(keyParams)
        variations == generateParamVariations(param, component.baseParams[param],
                                              variationIntensity)
        rest == generateAdaptiveVariants(component, Tail(keyParams), variationIntensity)
    IN IF variations.threw \/ rest.threw THEN [threw |-> TRUE, values |-> <<>>]
       ELSE [threw |-> FALSE,
             values |-> [i \in 1..Len(variations.values) |->
                           [component EXCEPT !.baseParams[param] = variations.values[i]]]
                        \o rest.values]

\* ------------------------------------------------------------------------
\* Normalization, naming and materialization
\* ------------------------------------------------------------------------

extractBaseParams(element) ==
  LET prop(name, dflt) == OrElse(Field(element.properties, name), dflt)
  IN [n \in AllParamNames |->
       CASE n = "width" -> OrElse(Field(element.position, "width"), Num(300))
         [] n = "height" -> OrElse(Field(element.position, "height"), Num(200))
         [] n = "color" -> prop(n, Str(<<"#","1","9","7","6","d","2">>))
         [] n = "backgroundColor" -> prop(n, Str(<<"#","f","f","f","f","f","f">>))
         [] n = "textColor" -> prop(n, Str(<<"#","0","0","0","0","0","0">>))
         [] n = "fontSize" -> prop(n, Str(<<"1","4","p","x">>))
         [] n = "fontWeight" -> prop(n, Str(<<"4","0","0">>))
         [] n = "borderRadius" -> prop(n, Str(<<"4","p","x">>))
         [] n = "border" -> prop(n, Str(<<"n","o","n","e">>))
         [] n = "padding" -> prop(n, Str(<<"1","6","p","x">>))
         [] n = "margin" -> prop(n, Str(<<"8","p","x">>))
         [] n \in {"title", "text", "value"} -> prop(n, Str(<<>>))
         [] n \in {"data", "config", "columns"} -> prop(n, Obj)
         [] OTHER -> Undef]

\* id.charAt(0).toUpperCase() + id.slice(1)
Capitalize(s) == IF s = <<>> THEN <<>> ELSE <<ToUpper(Head(s))>> \o Tail(s)

\* element.id.replace raises when the id is no string
generateComponentName(element) ==
  LET baseName == IF RowOf(element.type) = 0 THEN <<"C","o","m","p","o","n","e","n","t">>
                  ELSE Catalogue[RowOf(element.type)].baseName
  IN IF ~IsStr(element.id) THEN [threw |-> TRUE, name |-> <<>>]
     ELSE [threw |-> FALSE,
           name |-> baseName \o Capitalize(StripNonAlnum(element.id.v))]

performBasicMapping(element) ==
  LET name == generateComponentName(element)
  IN [threw |-> name.threw,
      component |-> [id |-> element.id,
                     type |-> element.type,
                     componentType |-> ComponentTypeOf(element.type),
                     name |-> name.name,
                     baseParams |-> extractBaseParams(element),
                     quality |-> BaseQuality,
                     iterations |-> 0]]

\* element.type.toUpperCase() raises when the type is no string
generateGenericCode(componentName, params, element) ==
  [threw |-> ~IsStr(element.type),
   content |-> [builder |-> "generateGenericCode", componentName |-> componentName,
                params |-> params]]

\* the switch over componentType: the builder of the type's row, and the
\* generic builder for any other component type
generateComponentCode(component, element) ==
  IF \E i \in 1..Len(Catalogue) : Catalogue[i].componentType = component.componentType
  THEN LET row == CHOOSE i \in 1..Len(Catalogue) :
                    Catalogue[i].componentType = component.componentType
       IN [threw |-> FALSE,
           content |-> [builder |-> Catalogue[row].builder,
                        componentName |-> component.name,
                        params |-> component.baseParams]]
  ELSE generateGenericCode(component.name, component.baseParams, element)

\* of is the index in analysis.elements of the element the artifact was
\* made for (0 for the main component)
generateFinalComponent(optimizedComponent, element, of) ==
  LET code == generateComponentCode(optimizedComponent, element)
  IN [threw |-> code.threw,
      component |-> [id |-> optimizedComponent.id,
                     type |-> optimizedComponent.type,
                     name |-> optimizedComponent.name,
                     content |-> code.content,
                     quality |-> optimizedComponent.quality,
                     iterations |-> optimizedComponent.iterations,
                     componentType |-> optimizedComponent.componentType,
                     of |-> of]]

generateFallbackComponent(element, of) ==
  LET name == generateComponentName(element)
      prop(n, dflt) == OrElse(Field(element.properties, n), dflt)
      params == [width |-> OrElse(Field(element.position, "width"), Num(300)),
                 height |-> OrElse(Field(element.position, "height"), Num(200)),
                 backgroundColor |-> prop("backgroundColor", Str(<<"#","f","5","f","5","f","5">>)),
                 border |-> Str(<<"1","p","x"," ","d","a","s","h","e","d"," ","#","c","c","c">>),
                 borderRadius |-> prop("borderRadius", Str(<<"4","p","x">>)),
                 padding |-> prop("padding", Str(<<"1","6","p","x">>)),
                 margin |-> prop("margin", Str(<<"8","p","x">>)),
                 color |-> prop("textColor", Str(<<"#","6","6","6">>)),
                 fontSize |-> prop("fontSize", Str(<<"1","4","p","x">>)),
                 fontWeight |-> prop("fontWeight", Str(<<"4","0","0">>))]
      code == generateGenericCode(name.name, params, element)
  IN [threw |-> name.threw \/ code.threw,
      component |-> [id |-> element.id,
                     type |-> element.type,
                     name |-> name.name,
                     content |-> code.content,
                     quality |-> FallbackQuality,
                     iterations |-> 0,
                     componentType |-> "FallbackComponent",
                     of |-> of]]

\* the main component imports and uses every component made so far, by name
generateMainComponent(imageId, made) ==
  [id |-> Str(<<"m","a","i","n">>),
   type |-> Str(<<"m","a","i","n">>),
   name |-> <<"M","a","i","n">> \o StripNonAlnum(imageId),
   content |-> [builder |-> "generateMainComponent",
                componentName |-> <<"M","a","i","n">> \o StripNonAlnum(imageId),
                params |-> [i \in 1..Len(made) |-> made[i].name]],
   quality |-> MainQuality,
   iterations |-> 0,
   componentType |-> "MainComponent",
   of |-> 0]

\* ------------------------------------------------------------------------
\* The elements an analysis is made of
\* ------------------------------------------------------------------------

\* the properties object with the keys of rec
PropsOf(rec) == ObjOf([n \in PropNames |-> IF n \in DOMAIN rec THEN rec[n] ELSE Undef])

\* the button of the specification: a background colour and a text
ButtonE1 ==
  [id |-> Str(<<"e","1">>),
   type |-> Str(<<"b","u","t","t","o","n">>),
   properties |-> PropsOf([text |-> Str(<<"S","a","v","e">>), backgroundColor |-> Str(<<"#","1","9","7","6","d","2">>)]),
   position |-> ObjOf([width |-> Num(120), height |-> Num(40)])]

\* every colour, the typography, a title and a text: the threshold is within reach
RichCard ==
  [id |-> Str(<<"c","1">>),
   type |-> Str(<<"c","a","r","d">>),
   properties |-> PropsOf([title |-> Str(<<"H","i">>), text |-> Str(<<"S","a","v","e">>), color |-> Str(<<"#","1","9","7","6","d","2">>), backgroundColor |-> Str(<<"#","f","f","f","f","f","f">>), textColor |-> Str(<<"#","0","0","0","0","0","0">>), fontSize |-> Str(<<"1","4","p","x">>), fontWeight |-> Str(<<"4","0","0">>)]),
   position |-> ObjOf([width |-> Num(60), height |-> Num(40)])]

\* no property; every width variant of the first iteration differs from 300
Wide ==
  [id |-> Str(<<"e","3">>),
   type |-> Str(<<"w","i","d","g","e","t">>),
   properties |-> PropsOf(<<>>),
   position |-> ObjOf([width |-> Num(300), height |-> Num(200)])]

\* no properties record
NoProperties ==
  [id |-> Str(<<"e","2">>),
   type |-> Str(<<"c","a","r","d">>),
   properties |-> Undef,
   position |-> ObjOf([width |-> Num(120), height |-> Num(40)])]

\* a position without a width
NoWidth ==
  [id |-> Str(<<"e","4">>),
   type |-> Str(<<"b","u","t","t","o","n">>),
   properties |-> PropsOf([text |-> Str(<<"S","a","v","e">>)]),
   position |-> ObjOf([width |-> Undef, height |-> Num(40)])]

\* a zero width and a negative height
NegativeTall ==
  [id |-> Str(<<"e","5">>),
   type |-> Str(<<"w","i","d","g","e","t">>),
   properties |-> PropsOf(<<>>),
   position |-> ObjOf([width |-> Num(0), height |-> Num(-100)])]

\* a negative width, every colour and the typography
NegativeRich ==
  [id |-> Str(<<"e","6">>),
   type |-> Str(<<"c","a","r","d">>),
   properties |-> PropsOf([color |-> Str(<<"#","1","9","7","6","d","2">>), backgroundColor |-> Str(<<"#","f","f","f","f","f","f">>), textColor |-> Str(<<"#","0","0","0","0","0","0">>), fontSize |-> Str(<<"1","4","p","x">>), fontWeight |-> Str(<<"4","0","0">>)]),
   position |-> ObjOf([width |-> Num(-100), height |-> Num(40)])]

\* a small negative width and a zero height
NegativeSmall ==
  [id |-> Str(<<"e","9">>),
   type |-> Str(<<"w","i","d","g","e","t">>),
   properties |-> PropsOf(<<>>),
   position |-> ObjOf([width |-> Num(-15), height |-> Num(0)])]

\* no id
NoId ==
  [id |-> Undef,
   type |-> Str(<<"b","u","t","t","o","n">>),
   properties |-> PropsOf(<<>>),
   position |-> ObjOf([width |-> Num(120), height |-> Num(40)])]

\* no type
NoType ==
  [id |-> Str(<<"e","7">>),
   type |-> Undef,
   properties |-> PropsOf(<<>>),
   position |-> ObjOf([width |-> Num(120), height |-> Num(40)])]

\* a colour that is a number
NumericColor ==
  [id |-> Str(<<"e","8">>),
   type |-> Str(<<"b","u","t","t","o","n">>),
   properties |-> PropsOf([color |-> Num(123)]),
   position |-> ObjOf([width |-> Num(120), height |-> Num(40)])]

\* a position and nothing else
PositionOnly ==
  [id |-> Undef,
   type |-> Undef,
   properties |-> Undef,
   position |-> ObjOf([width |-> Num(300), height |-> Num(200)])]

\* the button once more, under an id that differs from 'e1' by a dash
ButtonDashed == [ButtonE1 EXCEPT !.id = Str(<<"e","-","1">>)]

\* no property and a width no variant of which Math.round brings back to 500
Banner ==
  [id |-> Str(<<"w","1">>),
   type |-> Str(<<"w","i","d","g","e","t">>),
   properties |-> PropsOf(<<>>),
   position |-> ObjOf([width |-> Num(500), height |-> Num(100)])]

Descriptors ==
  [ButtonE1 |-> ButtonE1,
   ButtonDashed |-> ButtonDashed,
   Banner |-> Banner,
   RichCard |-> RichCard,
   Wide |-> Wide,
   NoProperties |-> NoProperties,
   NoWidth |-> NoWidth,
   NegativeTall |-> NegativeTall,
   NegativeRich |-> NegativeRich,
   NegativeSmall |-> NegativeSmall,
   NoId |-> NoId,
   NoType |-> NoType,
   NumericColor |-> NumericColor,
   PositionOnly |-> PositionOnly]

\* analysis.imageId
ImageId == <<"i","m","g","-","1">>

\* ------------------------------------------------------------------------
\* processStructuredData as a state machine
\* ------------------------------------------------------------------------

VARIABLES
  elements,           \* analysis.elements, as the names of its descriptors
  components,         \* result.components
  pc,                 \* the position of processStructuredData
  index,              \* the position of the for loop over the elements
  currentComponent,   \* baseComponent, then the locals of
  bestQuality,        \*   performAdaptiveOptimization
  bestComponent,
  stagnationCount,
  iteration,
  improved,
  keyParams,
  maxIterations,
  variants,           \* the variants of the iteration under way
  variationIntensity, \* the intensity the variants were generated with
  variant,            \* the position of the loop over the variants
  optimizedComponent, \* what performAdaptiveOptimization returned
  outcome,            \* how the run of performAdaptiveOptimization ended
  evaluated,          \* history: the evaluations of the run, in order
  lastVariant,        \* history: the variant evaluated last
  failed,             \* history: per element, the stages that raised
  call,               \* the helper called on its own, with its arguments
  result,             \* what that call returned
  processingQueue,    \* ReactGeneratorApp: the status of each job of the queue
  isProcessing,       \* ReactGeneratorApp: the flag of processQueue
  runs,               \* the calls of processQueue waiting at an await
  timers,             \* the setTimeout callbacks not yet run
  regenerate,         \* history: the jobs POST /generate has queued again
                      \*   and no call of processQueue has taken since
  transformerQueue,              \* BackgroundJSTransformer: this.queue, as task numbers
  transformerIsProcessing, \* BackgroundJSTransformer: this.isProcessing
  loops,              \* the calls of its processQueue waiting at an await
  tasks,              \* the tasks given to addToQueue, with the number of
                      \*   calls of transformFile and its result for each
  jsFiles             \* the .tsx files whose .js file exists

vars == <<elements, components, pc, index, currentComponent, bestQuality,
          bestComponent, stagnationCount, iteration, improved, keyParams,
          maxIterations, variants, variationIntensity, variant, optimizedComponent, outcome,
          evaluated, lastVariant, failed, call, result, processingQueue,
          isProcessing, runs, timers, regenerate, transformerQueue,
          transformerIsProcessing, loops, tasks, jsFiles>>

\* the state of ReactGeneratorApp
app == <<processingQueue, isProcessing, runs, timers, regenerate>>

\* the state of BackgroundJSTransformer and of the files it writes
transformer == <<transformerQueue, transformerIsProcessing, loops, tasks, jsFiles>>

\* the transformer as its constructor leaves it, no .js file written yet
TransformerIdle ==
  /\ transformerQueue = <<>>
  /\ transformerIsProcessing = FALSE
  /\ loops = {}
  /\ tasks = <<>>
  /\ jsFiles = {}

\* the application as its constructor leaves it
AppIdle ==
  /\ processingQueue = <<>>
  /\ isProcessing = FALSE
  /\ runs = <<>>
  /\ timers = 0
  /\ regenerate = {}

\* no helper has been called on its own
NoCall == [fn |-> "none", args |-> <<>>]

locals == <<currentComponent, bestQuality, bestComponent, stagnationCount,
            iteration, improved, keyParams, maxIterations, variants, variationIntensity, variant>>

\* the analysis of the end-to-end scenario: three elements, one of them with
\* a negative width, at each of the three places
NegativeWidthJobs ==
  {<<"NegativeRich", "ButtonE1", "RichCard">>,
   <<"ButtonE1", "NegativeRich", "RichCard">>,
   <<"ButtonE1", "RichCard", "NegativeRich">>}

\* the analysis with two buttons whose ids differ by a dash only
NamesakeJobs == {<<"ButtonE1", "ButtonDashed">>, <<"ButtonDashed", "ButtonE1">>}

\* the analysis of the banner alone
BannerJobs == {<<"Banner">>}

\* the analyses: every sequence of descriptors up to MaxElements, the dashed
\* button and the banner being kept for their own scenarios, and the
\* scenarios
Jobs ==
  UNION {[1..n -> DOMAIN Descriptors \ {"ButtonDashed", "Banner"}] :
           n \in 0..MaxElements}
    \cup NegativeWidthJobs \cup NamesakeJobs \cup BannerJobs

\* the element the for loop is at
Element == Descriptors[elements[index]]

Init ==
  /\ elements \in Jobs
  /\ components = <<>>
  /\ pc = "mkdir"
  /\ index = 1
  /\ currentComponent = Undef
  /\ bestQuality = Sc(0)
  /\ bestComponent = Undef
  /\ stagnationCount = 0
  /\ iteration = 0
  /\ improved = FALSE
  /\ keyParams = <<>>
  /\ maxIterations = 0
  /\ variants = <<>>
  /\ variationIntensity = Undef
  /\ variant = 0
  /\ optimizedComponent = Undef
  /\ outcome = "none"
  /\ evaluated = <<>>
  /\ lastVariant = Undef
  /\ failed = [i \in DOMAIN elements |-> {}]
  /\ call = NoCall
  /\ result = Undef
  /\ AppIdle
  /\ TransformerIdle

\* the locals of one element go out of scope
ForgetLocals ==
  /\ currentComponent' = Undef
  /\ bestQuality' = Sc(0)
  /\ bestComponent' = Undef
  /\ stagnationCount' = 0
  /\ iteration' = 0
  /\ improved' = FALSE
  /\ keyParams' = <<>>
  /\ maxIterations' = 0
  /\ variants' = <<>>
  /\ variationIntensity' = Undef
  /\ variant' = 0
  /\ optimizedComponent' = Undef
  /\ outcome' = "none"
  /\ evaluated' = <<>>
  /\ lastVariant' = Undef

\* the for loop goes on with the next element, or ends
NextElement ==
  /\ index' = index + 1
  /\ pc' = IF index < Len(elements) THEN "element" ELSE "main"
  /\ ForgetLocals

\* an exception inside the try block of the loop body: the catch block runs
Catch(stage) ==
  /\ pc' = "fallback"
  /\ failed' = [failed EXCEPT ![index] = @ \cup {stage}]

\* an exception outside of it: the outer catch logs and throws it again
Rethrow(stage) ==
  /\ pc' = "thrown"
  /\ failed' = [failed EXCEPT ![index] = @ \cup {stage}]

\* fs.mkdir(componentDir, { recursive: true })
MakeDirectory ==
  /\ pc = "mkdir"
  /\ \E made \in BOOLEAN :
       pc' = IF ~made THEN "thrown" ELSE IF elements = <<>> THEN "main" ELSE "element"
  /\ UNCHANGED <<app, transformer, elements, call, result>>
  /\ UNCHANGED <<components, index, locals, optimizedComponent, outcome,
                 evaluated, lastVariant, failed>>

\* stage 1: performBasicMapping
BasicMapping ==
  /\ pc = "element"
  /\ LET mapped == performBasicMapping(Element)
     IN IF mapped.threw
        THEN /\ Catch("normalize")
             /\ UNCHANGED currentComponent
        ELSE /\ pc' = "optimize"
             /\ currentComponent' = mapped.component
             /\ UNCHANGED failed
  /\ UNCHANGED <<app, transformer, elements, call, result>>
  /\ UNCHANGED <<components, index, bestQuality, bestComponent,
                 stagnationCount, iteration, improved, keyParams, maxIterations,
                 variants, variationIntensity, variant, optimizedComponent, outcome, evaluated,
                 lastVariant>>

\* stage 2: performAdaptiveOptimization, up to its for loop
BeginOptimization ==
  /\ pc = "optimize"
  /\ keyParams' = selectKeyParams(Element)
  /\ maxIterations' = calculateMaxIterations(Element)
  /\ bestQuality' = currentComponent.quality
  /\ bestComponent' = currentComponent
  /\ stagnationCount' = 0
  /\ iteration' = 0
  /\ outcome' = "Running"
  /\ pc' = "iterate"
  /\ UNCHANGED <<app, transformer, elements, call, result>>
  /\ UNCHANGED <<components, index, currentComponent, improved, variants, variationIntensity,
                 variant, optimizedComponent, evaluated, lastVariant, failed>>

\* performAdaptiveOptimization returns
Return(component, how) ==
  /\ optimizedComponent' = component
  /\ outcome' = how
  /\ pc' = "generate"

\* the head of the for loop, and the variants of the iteration
BeginIteration ==
  /\ pc = "iterate"
  /\ IF iteration >= maxIterations
     THEN /\ Return(bestComponent, "Exhausted")
          /\ UNCHANGED <<improved, variants, variationIntensity, variant, failed>>
     ELSE LET intensity == calculateVariationIntensity(iteration, maxIterations,
                                                        stagnationCount)
              made == generateAdaptiveVariants(currentComponent, keyParams, intensity)
          IN IF made.threw
             THEN /\ Catch("optimize")
                  /\ outcome' = "Threw"
                  /\ UNCHANGED <<improved, variants, variationIntensity, variant,
                                 optimizedComponent>>
             ELSE /\ variants' = made.values
                  /\ variationIntensity' = intensity
                  /\ improved' = FALSE
                  /\ variant' = 1
                  /\ pc' = IF made.values = <<>> THEN "stagnation" ELSE "evaluate"
                  /\ UNCHANGED <<optimizedComponent, outcome, failed>>
  /\ UNCHANGED <<app, transformer, elements, call, result>>
  /\ UNCHANGED <<components, index, currentComponent, bestQuality,
                 bestComponent, stagnationCount, iteration, keyParams, maxIterations,
                 evaluated, lastVariant>>

\* a faulty update of the best candidate: every numeric quality replaces it
ImprovesWithoutComparing(quality, best) == IsNumber(quality)

\* a faulty update of the best candidate: the comparison is the wrong way round
ImprovesWhenLower(quality, best) == ScGt(best, quality)

\* if (quality > bestQuality)
Improves(quality, best) == ScGt(quality, best)

\* a faulty record of the iteration: its 0-based index
ScoredFromZero(candidate, quality, iter) ==
  [candidate EXCEPT !.quality = quality, !.iterations = iter]

\* { ...variant, quality, iterations: iteration + 1 }
Scored(candidate, quality, iter) ==
  [candidate EXCEPT !.quality = quality, !.iterations = iter + 1]

\* the body of the loop over the variants, for one variant
EvaluateVariant ==
  /\ pc = "evaluate"
  /\ LET candidate == variants[variant]
         quality == evaluateComponentQualityStrict(candidate, Element)
         scored == Scored(candidate, quality, iteration)
         better == Improves(quality, bestQuality)
     IN /\ lastVariant' = candidate
        /\ evaluated' = Append(evaluated, [iteration |-> iteration + 1, quality |-> quality])
        /\ IF quality.threw
           THEN /\ Catch("optimize")
                /\ outcome' = "Threw"
                /\ UNCHANGED <<bestQuality, bestComponent, improved, variant,
                               optimizedComponent>>
           ELSE /\ bestQuality' = IF better THEN quality ELSE bestQuality
                /\ bestComponent' = IF better THEN scored ELSE bestComponent
                /\ improved' = (improved \/ better)
                /\ IF ScGe(quality, QualityThreshold)
                   THEN /\ Return(scored, "Threshold-Reached")
                        /\ UNCHANGED variant
                   ELSE /\ variant' = variant + 1
                        /\ pc' = IF variant < Len(variants)
                                 THEN "evaluate" ELSE "stagnation"
                        /\ UNCHANGED <<optimizedComponent, outcome>>
                /\ UNCHANGED failed
  /\ UNCHANGED <<app, transformer, elements, call, result>>
  /\ UNCHANGED <<components, index, currentComponent, stagnationCount,
                 iteration, keyParams, maxIterations, variants, variationIntensity>>

\* a faulty stagnation count: an improving iteration does not reset it
NextStagnationCountNoReset(count, hasImproved) ==
  IF hasImproved THEN count ELSE count + 1

\* the stagnation count after an iteration
NextStagnationCount(count, hasImproved) == IF hasImproved THEN 0 ELSE count + 1

\* the number of iterations without improvement that ends the loop
StagnationLimit == 3

\* the end of an iteration: the stagnation count, break or go on
TrackStagnation ==
  /\ pc = "stagnation"
  /\ stagnationCount' = NextStagnationCount(stagnationCount, improved)
  /\ IF ~improved /\ stagnationCount + 1 >= StagnationLimit
     THEN /\ Return(bestComponent, "Stagnant")
          /\ UNCHANGED <<currentComponent, iteration>>
     ELSE /\ currentComponent' = bestComponent
          /\ iteration' = iteration + 1
          /\ pc' = "iterate"
          /\ UNCHANGED <<optimizedComponent, outcome>>
  /\ UNCHANGED <<app, transformer, elements, call, result>>
  /\ UNCHANGED <<components, index, bestQuality, bestComponent, improved,
                 keyParams, maxIterations, variants, variationIntensity, variant, evaluated, lastVariant,
                 failed>>

\* stage 3: generateFinalComponent, then the component is pushed and saved;
\* saveComponent raises when a write fails
GenerateAndSave ==
  /\ pc = "generate"
  /\ LET final == generateFinalComponent(optimizedComponent, Element, index)
     IN IF final.threw
        THEN /\ Catch("materialize")
             /\ UNCHANGED <<components, index, locals, optimizedComponent, outcome,
                            evaluated, lastVariant>>
        ELSE /\ components' = Append(components, final.component)
             /\ \E saved \in BOOLEAN :
                  IF saved
                  THEN NextElement /\ UNCHANGED failed
                  ELSE /\ Catch("save")
                       /\ UNCHANGED <<index, locals, optimizedComponent, outcome,
                                      evaluated, lastVariant>>
  /\ UNCHANGED <<app, transformer, elements, call, result>>

\* the catch block of the loop body: the fallback component is made, pushed
\* and saved
Fallback ==
  /\ pc = "fallback"
  /\ LET fallbackComponent == generateFallbackComponent(Element, index)
     IN IF fallbackComponent.threw
        THEN /\ Rethrow("fallback")
             /\ UNCHANGED <<components, index, locals, optimizedComponent, outcome,
                            evaluated, lastVariant>>
        ELSE /\ components' = Append(components, fallbackComponent.component)
             /\ \E saved \in BOOLEAN :
                  IF saved
                  THEN NextElement /\ UNCHANGED failed
                  ELSE /\ Rethrow("fallbackSave")
                       /\ UNCHANGED <<index, locals, optimizedComponent, outcome,
                                      evaluated, lastVariant>>
  /\ UNCHANGED <<app, transformer, elements, call, result>>

\* generateMainComponent, pushed and saved
MainComponent ==
  /\ pc = "main"
  /\ components' = Append(components, generateMainComponent(ImageId, components))
  /\ \E saved \in BOOLEAN : pc' = IF saved THEN "index" ELSE "thrown"
  /\ UNCHANGED <<app, transformer, elements, call, result>>
  /\ UNCHANGED <<index, locals, optimizedComponent, outcome, evaluated,
                 lastVariant, failed>>

\* createIndexFile, then processStructuredData returns result
IndexFile ==
  /\ pc = "index"
  /\ \E written \in BOOLEAN : pc' = IF written THEN "returned" ELSE "thrown"
  /\ UNCHANGED <<app, transformer, elements, call, result>>
  /\ UNCHANGED <<components, index, locals, optimizedComponent, outcome,
                 evaluated, lastVariant, failed>>

Next ==
  \/ MakeDirectory
  \/ BasicMapping
  \/ BeginOptimization
  \/ BeginIteration
  \/ EvaluateVariant
  \/ TrackStagnation
  \/ GenerateAndSave
  \/ Fallback
  \/ MainComponent
  \/ IndexFile

Spec == Init /\ [][Next]_vars

\* ------------------------------------------------------------------------
\* performAdaptiveOptimization alone, called with the base component of one
\* element
\* ------------------------------------------------------------------------

OptInit ==
  /\ elements \in {<<name>> : name \in DOMAIN Descriptors}
  /\ components = <<>>
  /\ pc = "optimize"
  /\ index = 1
  /\ currentComponent = performBasicMapping(Descriptors[elements[1]]).component
  /\ bestQuality = Sc(0)
  /\ bestComponent = Undef
  /\ stagnationCount = 0
  /\ iteration = 0
  /\ improved = FALSE
  /\ keyParams = <<>>
  /\ maxIterations = 0
  /\ variants = <<>>
  /\ variationIntensity = Undef
  /\ variant = 0
  /\ optimizedComponent = Undef
  /\ outcome = "none"
  /\ evaluated = <<>>
  /\ lastVariant = Undef
  /\ failed = <<{}>>
  /\ call = NoCall
  /\ result = Undef
  /\ AppIdle
  /\ TransformerIdle

OptNext ==
  \/ BeginOptimization
  \/ BeginIteration
  \/ EvaluateVariant
  \/ TrackStagnation

OptSpec == OptInit /\ [][OptNext]_vars

\* ------------------------------------------------------------------------
\* The helpers of the worker, each called on its own
\* ------------------------------------------------------------------------

\* the color strings the helpers are called with: colors of six hexadecimal
\* digits in both cases, with and without '#', a short form, a color name,
\* six characters that are not all digits, and the empty string
Colors ==
  {<<"#","0","0","0","0","0","0">>, <<"#","f","f","f","f","f","f">>,
   <<"#","1","9","7","6","d","2">>, <<"#","F","F","0","0","0","0">>,
   <<"#","a","b","c","d","e","f">>, <<"a","b","c","d","e","f">>,
   <<"#","1","2","3","4","5","g">>, <<"#","z","z","z","z","z","z">>,
   <<"o","r","a","n","g","e">>, <<"#","f","f","f">>, <<"r","e","d">>, <<>>}

\* no job is under way
HelperInit ==
  /\ elements = <<>>
  /\ components = <<>>
  /\ pc = "helper"
  /\ index = 1
  /\ currentComponent = Undef
  /\ bestQuality = Sc(0)
  /\ bestComponent = Undef
  /\ stagnationCount = 0
  /\ iteration = 0
  /\ improved = FALSE
  /\ keyParams = <<>>
  /\ maxIterations = 0
  /\ variants = <<>>
  /\ variationIntensity = Undef
  /\ variant = 0
  /\ optimizedComponent = Undef
  /\ outcome = "none"
  /\ evaluated = <<>>
  /\ lastVariant = Undef
  /\ failed = <<>>
  /\ call = NoCall
  /\ result = Undef
  /\ AppIdle
  /\ TransformerIdle

\* this.calculateColorSimilarity(color1, color2)
CallColorSimilarity ==
  /\ pc = "helper"
  /\ \E color1 \in Colors, color2 \in Colors :
       /\ call' = [fn |-> "calculateColorSimilarity",
                   args |-> <<Str(color1), Str(color2)>>]
       /\ result' = calculateColorSimilarity(Str(color1), Str(color2))
  /\ UNCHANGED <<app, transformer, elements, components, pc, index, locals,
                 optimizedComponent, outcome, evaluated, lastVariant, failed>>

\* the intensities the helpers are called with: 0.05, 0.2 and 0.3
Intensities ==
  {[num |-> 5, den |-> 100], [num |-> 20, den |-> 100], [num |-> 30, den |-> 100]}

\* the font sizes the helpers are called with: pixels, other units, a
\* fraction, no unit, no number, and a number
FontSizes ==
  {Str(<<"1","4","p","x">>), Str(<<"1","6","p","x">>), Str(<<"2","r","e","m">>),
   Str(<<"1","2","p","t">>), Str(<<"1",".","5","e","m">>), Str(<<"1","8">>),
   Str(<<"l","a","r","g","e">>), Str(<<>>), Num(16)}

\* the current values generateParamVariations is called with for param
CurrentValues(param) ==
  IF param = "fontSize" THEN FontSizes ELSE {Str(c) : c \in Colors}

\* this.generateParamVariations(param, currentValue, intensity)
CallParamVariations ==
  /\ pc = "helper"
  /\ \E param \in {"color", "backgroundColor", "fontSize"}, intensity \in Intensities :
       \E currentValue \in CurrentValues(param) :
         /\ call' = [fn |-> "generateParamVariations",
                     args |-> <<param, currentValue, intensity>>]
         /\ result' = generateParamVariations(param, currentValue, intensity)
  /\ UNCHANGED <<app, transformer, elements, components, pc, index, locals,
                 optimizedComponent, outcome, evaluated, lastVariant, failed>>

\* the contents the helpers are called with: a title, a text or a value of
\* the element, absent or 'Hi', and of the candidate, '', 'Hi' or 'Ho'
ContentNames == {"title", "text", "value"}
ElementContents == [ContentNames -> {Undef, Str(<<"H","i">>)}]
CandidateContents == [ContentNames -> {Str(<<>>), Str(<<"H","i">>), Str(<<"H","o">>)}]

\* this.evaluateContentMatch(params, properties)
CallContentMatch ==
  /\ pc = "helper"
  /\ \E params \in CandidateContents, contents \in ElementContents :
       LET properties == PropsOf(contents)
       IN /\ call' = [fn |-> "evaluateContentMatch", args |-> <<params, properties>>]
          /\ result' = evaluateContentMatch(params, properties)
  /\ UNCHANGED <<app, transformer, elements, components, pc, index, locals,
                 optimizedComponent, outcome, evaluated, lastVariant, failed>>

\* the elements the helpers are called with: a type with five key
\* parameters, one with four, one of the catalogue without key parameters
\* and one outside the catalogue, each as a small element without
\* properties, a large one without properties and a large one with three
SampleTypes ==
  {<<"b","u","t","t","o","n">>, <<"t","e","x","t">>, <<"h","e","a","d","e","r">>,
   <<"w","i","d","g","e","t">>}

SampleShapes ==
  {[properties |-> PropsOf(<<>>),
    position |-> ObjOf([width |-> Num(10), height |-> Num(10)])],
   [properties |-> PropsOf(<<>>),
    position |-> ObjOf([width |-> Num(300), height |-> Num(200)])],
   [properties |-> PropsOf([title |-> Str(<<"H","i">>), text |-> Str(<<"S","a","v","e">>),
                            fontSize |-> Str(<<"1","4","p","x">>)]),
    position |-> ObjOf([width |-> Num(300), height |-> Num(200)])]}

SampleElements ==
  {[id |-> Str(<<"s","1">>), type |-> Str(type), properties |-> shape.properties,
    position |-> shape.position] : type \in SampleTypes, shape \in SampleShapes}

\* this.selectKeyParams(element), for two elements
CallSelectKeyParams ==
  /\ pc = "helper"
  /\ \E first \in SampleElements, second \in SampleElements :
       /\ call' = [fn |-> "selectKeyParams", args |-> <<first, second>>]
       /\ result' = <<selectKeyParams(first), selectKeyParams(second)>>
  /\ UNCHANGED <<app, transformer, elements, components, pc, index, locals,
                 optimizedComponent, outcome, evaluated, lastVariant, failed>>

HelperNext ==
  \/ CallColorSimilarity
  \/ CallParamVariations
  \/ CallContentMatch
  \/ CallSelectKeyParams

HelperSpec == HelperInit /\ [][HelperNext]_vars

\* ------------------------------------------------------------------------
\* ReactGeneratorApp: the processing queue
\* ------------------------------------------------------------------------

\* the jobs the queue is let grow to, the timers left waiting at one moment
MaxJobs == 3
MaxTimers == 2

\* the first test of processQueue without the flag
BusyOnlyWhenEmpty(flag, queue) == Len(queue) = 0

\* the jobs find(j => j.status === 'queued') chooses from
Queued(queue) == {i \in DOMAIN queue : queue[i] = "queued"}

\* the first test of processQueue: it returns at once
Busy(flag, queue) == flag \/ Len(queue) = 0

\* this.processQueue() up to its first await, on the queue the caller has
\* left: nothing when the flag is set or no job is queued, else the first
\* queued job becomes 'processing' and the call waits for analyzeImage;
\* asked is the set of the jobs queued again, as the caller has left it
processQueue(queue, asked) ==
  IF Busy(isProcessing, queue) \/ Queued(queue) = {}
  THEN /\ processingQueue' = queue
       /\ regenerate' = asked
       /\ UNCHANGED <<isProcessing, runs>>
  ELSE LET job == CHOOSE i \in Queued(queue) : \A j \in Queued(queue) : i <= j
       IN /\ processingQueue' = [queue EXCEPT ![job] = "processing"]
          /\ regenerate' = asked \ {job}
          /\ isProcessing' = TRUE
          /\ runs' = Append(runs, [job |-> job, at |-> "analyzeImage"])

\* the variables of the worker, which the application leaves alone
worker == <<elements, components, pc, index, locals, optimizedComponent, outcome,
            evaluated, lastVariant, failed, call, result>>

\* POST /images/upload: the job is pushed, processQueue is called when the
\* flag is down
Upload ==
  /\ pc = "app"
  /\ Len(processingQueue) < MaxJobs
  /\ IF ~isProcessing
     THEN processQueue(Append(processingQueue, "queued"), regenerate)
     ELSE /\ processingQueue' = Append(processingQueue, "queued")
          /\ UNCHANGED <<isProcessing, runs, regenerate>>
  /\ UNCHANGED <<timers, transformer, worker>>

\* fileWatcher.on('fileAdded'): the job is pushed, processQueue is called
FileAdded ==
  /\ pc = "app"
  /\ Len(processingQueue) < MaxJobs
  /\ processQueue(Append(processingQueue, "queued"), regenerate)
  /\ UNCHANGED <<timers, transformer, worker>>

\* POST /generate for a job of the queue: it is queued again, whatever its
\* status, and processQueue is called
Generate ==
  /\ pc = "app"
  /\ \E job \in DOMAIN processingQueue :
       processQueue([processingQueue EXCEPT ![job] = "queued"], regenerate \cup {job})
  /\ UNCHANGED <<timers, transformer, worker>>

\* the callback of setTimeout(() => this.processQueue(), 1000)
Timer ==
  /\ pc = "app"
  /\ timers > 0
  /\ timers' = timers - 1
  /\ processQueue(processingQueue, regenerate)
  /\ UNCHANGED <<transformer, worker>>

\* the sequence without its element at position k
Without(seq, k) == SubSeq(seq, 1, k - 1) \o SubSeq(seq, k + 1, Len(seq))

\* the awaits of processQueue, in order
AfterAwait(at) ==
  IF at = "analyzeImage" THEN "loadTemplates"
  ELSE IF at = "loadTemplates" THEN "generateComponent" ELSE "done"

\* a faulty finally block: no timer is set
NotRescheduled(waiting) == waiting

\* setTimeout(() => this.processQueue(), 1000): one more timer is waiting
Rescheduled(waiting) == waiting + 1

\* an await of a call of processQueue settles: the call goes on to its next
\* await, or, after the last one or when the promise was rejected, it sets
\* the status of its job, runs the finally block and returns
Settle ==
  /\ pc = "app"
  /\ \E k \in DOMAIN runs, rejected \in BOOLEAN :
       LET run == runs[k]
       IN IF ~rejected /\ AfterAwait(run.at) # "done"
          THEN /\ runs' = [runs EXCEPT ![k].at = AfterAwait(run.at)]
               /\ UNCHANGED <<processingQueue, isProcessing, timers, regenerate>>
          ELSE /\ timers < MaxTimers
               /\ processingQueue' =
                    [processingQueue EXCEPT
                       ![run.job] = IF rejected THEN "failed" ELSE "completed"]
               /\ isProcessing' = FALSE
               /\ runs' = Without(runs, k)
               /\ timers' = Rescheduled(timers)
               /\ UNCHANGED regenerate
  /\ UNCHANGED <<transformer, worker>>

AppInit ==
  /\ elements = <<>>
  /\ components = <<>>
  /\ pc = "app"
  /\ index = 1
  /\ currentComponent = Undef
  /\ bestQuality = Sc(0)
  /\ bestComponent = Undef
  /\ stagnationCount = 0
  /\ iteration = 0
  /\ improved = FALSE
  /\ keyParams = <<>>
  /\ maxIterations = 0
  /\ variants = <<>>
  /\ variationIntensity = Undef
  /\ variant = 0
  /\ optimizedComponent = Undef
  /\ outcome = "none"
  /\ evaluated = <<>>
  /\ lastVariant = Undef
  /\ failed = <<>>
  /\ call = NoCall
  /\ result = Undef
  /\ AppIdle
  /\ TransformerIdle

AppNext ==
  \/ Upload
  \/ FileAdded
  \/ Generate
  \/ Timer
  \/ Settle

AppSpec == AppInit /\ [][AppNext]_vars

\* every await of processQueue settles and every timer runs out
FairAppSpec == AppSpec /\ WF_vars(Settle) /\ WF_vars(Timer)

\* ---------------------------------------------------------------------
\* BackgroundJSTransformer: addToQueue and processQueue

\* the number of tasks given to addToQueue
MaxTasks == 4

\* the .tsx files of the output directories
Paths == {"Button.tsx", "Card.tsx"}

\* transformFile is called with the task
Called(all, task) == [all EXCEPT ![task].calls = @ + 1]

\* a faulty loop test: the loop is left after each task
ContinuesNever(waiting) == FALSE

\* while (this.queue.length > 0)
Continues(waiting) == Len(waiting) > 0

\* processQueue from its loop test to its next await: the first task is
\* shifted and transformFile is called with it, or the flag is put down and
\* the call returns
LoopStep(waiting, all, others) ==
  IF Continues(waiting)
  THEN /\ transformerQueue' = Tail(waiting)
       /\ tasks' = Called(all, Head(waiting))
       /\ loops' = others \cup {[task |-> Head(waiting), at |-> "transformFile"]}
       /\ transformerIsProcessing' = TRUE
  ELSE /\ transformerQueue' = waiting
       /\ tasks' = all
       /\ loops' = others
       /\ transformerIsProcessing' = FALSE

\* processQueue of the transformer, up to its first await
transformerProcessQueue(waiting, all) ==
  IF transformerIsProcessing \/ Len(waiting) = 0
  THEN /\ transformerQueue' = waiting
       /\ tasks' = all
       /\ UNCHANGED <<loops, transformerIsProcessing>>
  ELSE LoopStep(waiting, all, loops)

\* addToQueue(task): the task is pushed, processQueue is called when the
\* flag is down
addToQueue ==
  /\ pc = "transformer"
  /\ Len(tasks) < MaxTasks
  /\ \E tsxPath \in Paths :
       LET all == Append(tasks, [tsxPath |-> tsxPath, calls |-> 0,
                                 result |-> "none",
                                 whileProcessing |-> transformerIsProcessing])
           waiting == Append(transformerQueue, Len(all))
       IN IF ~transformerIsProcessing
          THEN transformerProcessQueue(waiting, all)
          ELSE /\ transformerQueue' = waiting
               /\ tasks' = all
               /\ UNCHANGED <<loops, transformerIsProcessing>>
  /\ UNCHANGED <<jsFiles, app, worker>>

\* await this.transformFile(...) settles: the file is skipped when its .js
\* file exists, written when it can be read and transformed, and the error
\* is returned otherwise; the loop goes on to its pause
TransformFileSettles ==
  /\ pc = "transformer"
  /\ \E loop \in loops, readable \in BOOLEAN :
       /\ loop.at = "transformFile"
       /\ LET tsxPath == tasks[loop.task].tsxPath
              made == IF tsxPath \in jsFiles THEN "skipped"
                      ELSE IF readable THEN "created" ELSE "failed"
          IN /\ tasks' = [tasks EXCEPT ![loop.task].result = made]
             /\ jsFiles' = IF made = "created" THEN jsFiles \cup {tsxPath}
                                               ELSE jsFiles
       /\ loops' = (loops \ {loop}) \cup {[loop EXCEPT !.at = "pause"]}
  /\ UNCHANGED <<transformerQueue, transformerIsProcessing, app, worker>>

\* the pause of 100 ms between two tasks ends: the loop test is made again
PauseEnds ==
  /\ pc = "transformer"
  /\ \E loop \in loops :
       /\ loop.at = "pause"
       /\ LoopStep(transformerQueue, tasks, loops \ {loop})
  /\ UNCHANGED <<jsFiles, app, worker>>

TransformerInit ==
  /\ elements = <<>>
  /\ components = <<>>
  /\ pc = "transformer"
  /\ index = 1
  /\ currentComponent = Undef
  /\ bestQuality = Sc(0)
  /\ bestComponent = Undef
  /\ stagnationCount = 0
  /\ iteration = 0
  /\ improved = FALSE
  /\ keyParams = <<>>
  /\ maxIterations = 0
  /\ variants = <<>>
  /\ variationIntensity = Undef
  /\ variant = 0
  /\ optimizedComponent = Undef
  /\ outcome = "none"
  /\ evaluated = <<>>
  /\ lastVariant = Undef
  /\ failed = <<>>
  /\ call = NoCall
  /\ result = Undef
  /\ AppIdle
  /\ TransformerIdle

TransformerNext ==
  \/ addToQueue
  \/ TransformFileSettles
  \/ PauseEnds

TransformerSpec == TransformerInit /\ [][TransformerNext]_vars

\* transformFile returns in the end, and so does the pause of 100 ms
FairTransformerSpec ==
  /\ TransformerSpec
  /\ WF_vars(TransformFileSettles)
  /\ WF_vars(PauseEnds)

\* ------------------------------------------------------------------------
\* Properties of performAdaptiveOptimization and processStructuredData
\* ------------------------------------------------------------------------

\* the ways performAdaptiveOptimization returns
Outcomes == {"Threshold-Reached", "Stagnant", "Exhausted"}

\* q is the greatest of the base quality 0.3 and the numeric qualities of evals
IsMaximumOf(q, evals) ==
  /\ IsNumber(q)
  /\ q.v >= 3 * (QScale \div 10)
  /\ q.v = 3 * (QScale \div 10) \/ \E i \in DOMAIN evals : evals[i].quality = q
  /\ \A i \in DOMAIN evals : ~ScGt(evals[i].quality, q)

\* C1: during one run of performAdaptiveOptimization the best quality so far
\* never decreases from one step of the run to the next, and the candidate the
\* run returns has the greatest quality among the base quality 0.3 and the
\* qualities of the variants evaluated in the run.
C1_BestNeverDecreases ==
  [][outcome = "Running" =>
       /\ IsNumber(bestQuality')
       /\ bestQuality'.v >= bestQuality.v
       /\ outcome' \in Outcomes =>
            IsMaximumOf(optimizedComponent'.quality, evaluated')]_vars

\* a run has returned a candidate better than the base one although a later
\* iteration evaluated variants of a lower quality
C1_Witness ==
  /\ outcome = "Stagnant"
  /\ optimizedComponent.quality.v > 3 * (QScale \div 10)
  /\ \E i \in DOMAIN evaluated :
       /\ evaluated[i].iteration > optimizedComponent.iterations
       /\ ScGt(optimizedComponent.quality, evaluated[i].quality)

\* the artifacts in result.components made for the element at position i
ArtifactsOf(i) == {k \in DOMAIN components : components[k].of = i}

\* C2: when processStructuredData has returned, result.components holds
\* exactly one artifact for each element of the analysis, whatever failed on
\* the way, a failure of saveComponent for the optimized artifact included.
C2_ExactlyOneArtifactPerElement ==
  pc = "returned" => \A i \in DOMAIN elements : Cardinality(ArtifactsOf(i)) = 1

\* C3: a failure while one element is processed, the making and the saving
\* of its fallback included, never aborts the batch: when
\* processStructuredData throws, the loop has gone past every element a
\* stage of which has failed.
C3_FailureNeverAbortsBatch ==
  pc = "thrown" => \A i \in DOMAIN elements : failed[i] # {} => index > i

\* the fallback artifact: the generic builder, quality 0.1, no iteration
IsFallbackArtifact(a) ==
  /\ a.componentType = "FallbackComponent"
  /\ a.content.builder = "generateGenericCode"
  /\ a.quality = Sc(QScale \div 10)
  /\ a.iterations = 0

\* C4: whenever performBasicMapping, performAdaptiveOptimization or
\* generateFinalComponent has thrown for an element, the artifact recorded
\* for that element, once the loop has left it, is the fallback artifact of
\* the generic builder, with quality 0.1 and iterations 0.
C4_FailedStageGivesFallback ==
  \A i \in DOMAIN elements :
    (/\ failed[i] \cap {"normalize", "optimize", "materialize"} # {}
     /\ index > i \/ pc = "thrown")
    => /\ Cardinality(ArtifactsOf(i)) = 1
       /\ \A k \in ArtifactsOf(i) : IsFallbackArtifact(components[k])

\* C5: as soon as a variant is evaluated with a quality >= 0.95 the run
\* returns that variant (Threshold-Reached): it is the last evaluation of the
\* run, no later variant or iteration is evaluated, and the iterations of the
\* returned candidate is the 1-based index of the iteration under way.
C5_ThresholdReturnsAtOnce ==
  \A i \in DOMAIN evaluated :
    ScGe(evaluated[i].quality, Sc(95 * (QScale \div 100))) =>
      /\ i = Len(evaluated)
      /\ outcome = "Threshold-Reached"
      /\ evaluated[i].iteration = iteration + 1
      /\ optimizedComponent = [lastVariant EXCEPT !.quality = evaluated[i].quality,
                                                  !.iterations = iteration + 1]

\* the threshold is reached by the first variant of the fifth iteration: the
\* other variants of that iteration and the later iterations are not run
C5_Witness ==
  /\ outcome = "Threshold-Reached"
  /\ optimizedComponent.iterations = 5
  /\ variant < Len(variants)
  /\ iteration + 1 < maxIterations

\* evaluation i of the run beat the best quality of the run so far
Beats(i) ==
  /\ ScGt(evaluated[i].quality, Sc(3 * (QScale \div 10)))
  /\ \A j \in 1..(i - 1) : ~ScGe(evaluated[j].quality, evaluated[i].quality)

\* iteration k (1-based) of the run had an improving variant
ImprovedIn(k) == \E i \in DOMAIN evaluated : evaluated[i].iteration = k /\ Beats(i)

\* the number of iterations without an improving variant in a row, up to
\* iteration n
RECURSIVE Quiet(_)
Quiet(n) == IF n = 0 \/ ImprovedIn(n) THEN 0 ELSE 1 + Quiet(n - 1)

LastImprovement ==
  IF \E k \in 1..(iteration + 1) : ImprovedIn(k)
  THEN CHOOSE k \in 1..(iteration + 1) :
         ImprovedIn(k) /\ \A m \in (k + 1)..(iteration + 1) : ~ImprovedIn(m)
  ELSE 0

\* C7: the iterations of the candidate performAdaptiveOptimization returns is
\* the 1-based index of the last iteration in which a variant improved the
\* best quality, and it is 0 exactly when no variant beat the base quality 0.3.
C7_IterationsIsLastImprovement ==
  outcome \in Outcomes =>
    /\ optimizedComponent.iterations = LastImprovement
    /\ optimizedComponent.iterations = 0
         <=> \A i \in DOMAIN evaluated :
               ~ScGt(evaluated[i].quality, Sc(3 * (QScale \div 10)))

\* the loop stopped in its fifth iteration and reports the second one
C7_Witness ==
  /\ outcome = "Stagnant"
  /\ iteration + 1 = 5
  /\ optimizedComponent.iterations = 2

\* C8: every run of performAdaptiveOptimization ends in one of
\* Threshold-Reached, Stagnant and Exhausted, after at most maxIterations
\* (5, 8 or 12) iterations, and reports at most maxIterations iterations.
C8_RunEndsInOneOutcome ==
  /\ outcome # "Threw"
  /\ outcome \in Outcomes \cup {"Running"} =>
       /\ maxIterations \in {5, 8, 12}
       /\ iteration <= maxIterations
  /\ outcome \in Outcomes => optimizedComponent.iterations <= maxIterations

\* C9: every quality evaluateComponentQualityStrict returns is a number
\* between 0 and 1, whatever the width and the height of the position.
C9_QualityInUnitInterval ==
  \A i \in DOMAIN evaluated :
    ~evaluated[i].quality.threw =>
      /\ IsNumber(evaluated[i].quality)
      /\ evaluated[i].quality.v \in 0..QScale

\* C10: evaluateComponentQualityStrict never throws, whatever is missing or
\* malformed in the element.
C10_EvaluatorNeverThrows ==
  \A i \in DOMAIN evaluated : ~evaluated[i].quality.threw

\* the parameter sets a and b hold the same value under every name
SameParams(a, b) == \A n \in DOMAIN a : Same(a[n], b[n])

\* C11: in every iteration the variants generateAdaptiveVariants has made
\* hold at least one variant whose parameter set is that of the current
\* candidate (a variant that changes nothing).
C11_NoOpVariantInEveryIteration ==
  pc = "evaluate" =>
    \E i \in DOMAIN variants :
      SameParams(variants[i].baseParams, currentComponent.baseParams)

\* position.width is a negative number
HasNegativeWidth(element) ==
  /\ element.position.t = "object"
  /\ element.position.v["width"].t = "number"
  /\ element.position.v["width"].v < 0

\* C12: for an analysis of three elements of which one has a negative width,
\* processStructuredData does not abort because of an element, it returns
\* with exactly one artifact for each of the three elements, and the artifact
\* of the element with the negative width has quality 0.1 and iterations 0.
C12_NegativeWidthGivesFallback ==
  (/\ Len(elements) = 3
   /\ Cardinality({i \in DOMAIN elements : HasNegativeWidth(Descriptors[elements[i]])}) = 1)
  => /\ pc = "thrown" => index > Len(elements) \/ failed = [i \in DOMAIN elements |-> {}]
     /\ pc = "returned" => \A i \in DOMAIN elements : Cardinality(ArtifactsOf(i)) = 1
     /\ \A i \in DOMAIN elements :
          HasNegativeWidth(Descriptors[elements[i]]) /\ index > i =>
            \A k \in ArtifactsOf(i) :
              /\ components[k].quality = Sc(QScale \div 10)
              /\ components[k].iterations = 0

\* C13: the run of performAdaptiveOptimization for the element that holds the
\* position 300 x 200 and nothing else, started from its base component,
\* ends in Threshold-Reached and in no other way, with a quality >= 0.95 and
\* iterations below maxIterations.
C13_PositionOnlyReachesThreshold ==
  elements = <<"PositionOnly">> =>
    /\ outcome \notin {"Stagnant", "Exhausted", "Threw"}
    /\ outcome = "Threshold-Reached" =>
         /\ ScGe(optimizedComponent.quality, Sc(95 * (QScale \div 100)))
         /\ optimizedComponent.iterations < maxIterations

\* the element has a properties record and a positive width and height
HasPropertiesAndPositiveSize(element) ==
  /\ element.properties.t = "object"
  /\ element.position.t = "object"
  /\ \A d \in {"width", "height"} :
       element.position.v[d].t = "number" /\ element.position.v[d].v > 0

\* moreover its id and its type are strings and every colour it gives is a string
IsWellFormed(element) ==
  /\ HasPropertiesAndPositiveSize(element)
  /\ IsStr(element.id)
  /\ IsStr(element.type)
  /\ \A c \in {"color", "backgroundColor", "textColor"} :
       element.properties.v[c].t \in {"undefined", "string"}

\* the name generateComponentName gives to an element that holds nothing but
\* the type and the id of element
NameFromTypeAndId(element) ==
  generateComponentName([id |-> element.id, type |-> element.type,
                         properties |-> Undef, position |-> Undef]).name

\* the artifact is the optimized one of element: its name comes from the type
\* and the id alone, its quality is above 0.3, and the text the builder was
\* given is the text of the element
IsOptimizedArtifactOf(a, element) ==
  /\ ScGt(a.quality, Sc(3 * (QScale \div 10)))
  /\ a.name = NameFromTypeAndId(element)
  /\ Same(a.content.params["text"], OrElse(Field(element.properties, "text"), Str(<<>>)))

HasUnknownType(element) ==
  /\ RowOf(element.type) = 0
  /\ IsStr(element.id)
  /\ HasPropertiesAndPositiveSize(element)

\* C15: for an element whose type is not in the catalogue no stage throws:
\* extractBaseParams gives a value to every key of the parameter set, the
\* component type of the candidate is the generic one, and the artifact of
\* the element is made by the generic builder in generateFinalComponent, not
\* by the catch block.
C15_UnknownTypeGoesNormalPath ==
  \A i \in DOMAIN elements :
    LET element == Descriptors[elements[i]]
    IN HasUnknownType(element) =>
         /\ \A n \in ParamNames : extractBaseParams(element)[n].t # "undefined"
         /\ performBasicMapping(element).component.componentType = "GenericComponent"
         /\ failed[i] \cap {"normalize", "optimize", "materialize", "fallback"} = {}
         /\ index > i =>
              \E k \in ArtifactsOf(i) :
                /\ components[k].componentType = "GenericComponent"
                /\ components[k].content.builder = "generateGenericCode"

\* a color of six hexadecimal digits, with or without the leading '#'
IsHexColor(c) ==
  LET hex == IF c # <<>> /\ Head(c) = "#" THEN Tail(c) ELSE c
  IN Len(hex) = 6 /\ \A i \in 1..6 : HexVal(hex[i]) >= 0

\* C16: calculateColorSimilarity gives 1.0 for a color and itself, a number
\* of [0,1] for two colors of six hexadecimal digits, and exactly 0.5 for two
\* different strings one of which is not a color of six hexadecimal digits
C16_ColorSimilarityCases ==
  call.fn = "calculateColorSimilarity" =>
    LET color1 == call.args[1].v
        color2 == call.args[2].v
    IN /\ color1 = color2 => IsNumber(result) /\ result.v = ScoreScale
       /\ IsHexColor(color1) /\ IsHexColor(color2)
            => IsNumber(result) /\ result.v >= 0 /\ result.v <= ScoreScale
       /\ color1 # color2 /\ (~IsHexColor(color1) \/ ~IsHexColor(color2))
            => IsNumber(result) /\ result.v = ScoreScale \div 2

\* the artifacts made by generateMainComponent
Aggregators == {k \in DOMAIN components : components[k].componentType = "MainComponent"}

\* the local holds a candidate, and it is a main component
IsMainCandidate(c) ==
  "componentType" \in DOMAIN c /\ c.componentType = "MainComponent"

\* C17: when processStructuredData has returned, result.components holds
\* exactly one main component; it is the last artifact, its imports are the
\* names of all the artifacts recorded before it, in order, fallbacks
\* included, its quality is 1.0 and its iterations 0; and at no moment is a
\* main component the last artifact but one or a candidate of
\* performAdaptiveOptimization.
C17_OneAggregatorLast ==
  /\ \A k \in Aggregators :
       k = Len(components) /\ pc \in {"index", "returned", "thrown"}
  /\ ~IsMainCandidate(currentComponent)
  /\ ~IsMainCandidate(bestComponent)
  /\ pc = "returned" =>
       LET n == Len(components)
       IN /\ Aggregators = {n}
          /\ components[n].of = 0
          /\ components[n].content.builder = "generateMainComponent"
          /\ DOMAIN components[n].content.params = 1..(n - 1)
          /\ \A k \in 1..(n - 1) :
               /\ components[k].of \in DOMAIN elements
               /\ components[n].content.params[k] = components[k].name
          /\ \A i \in DOMAIN elements : ArtifactsOf(i) # {}
          /\ IsNumber(components[n].quality)
          /\ components[n].quality.v = QScale
          /\ components[n].iterations = 0

\* a job has returned with an optimized artifact and a fallback artifact,
\* both imported by the main component
C17_Witness ==
  /\ pc = "returned"
  /\ Len(components) >= 3
  /\ components[Len(components)].componentType = "MainComponent"
  /\ \E j, k \in 1..(Len(components) - 1) :
       /\ IsFallbackArtifact(components[j])
       /\ components[k].componentType \notin {"FallbackComponent", "MainComponent"}
       /\ components[Len(components)].content.params[j] = components[j].name
       /\ components[Len(components)].content.params[k] = components[k].name

\* C18: whatever the order of uploads, fileAdded events, POST /generate
\* requests and timer callbacks, at most one job of the queue has the status
\* 'processing' and at most one call of processQueue is between its first
\* await and its finally block.
C18_AtMostOneJobProcessing ==
  /\ Cardinality({i \in DOMAIN processingQueue : processingQueue[i] = "processing"}) <= 1
  /\ Len(runs) <= 1
  /\ isProcessing <=> runs # <<>>
  /\ \A i \in DOMAIN processingQueue :
       processingQueue[i] = "processing" => runs # <<>> /\ runs[1].job = i

\* a job is being processed while two more are queued and a timer is waiting
C18_Witness ==
  /\ Len(processingQueue) = 3
  /\ processingQueue[2] = "processing"
  /\ processingQueue[1] = "completed"
  /\ processingQueue[3] = "queued"
  /\ runs # <<>> /\ runs[1].at = "generateComponent"
  /\ timers > 0

\* the parameters in which two parameter sets differ
DiffParams(a, b) == {n \in DOMAIN a : ~Same(a[n], b[n])}

\* the variant is the current candidate but for its parameter set
SameButParams(v, c) ==
  /\ Same(v.id, c.id)
  /\ Same(v.type, c.type)
  /\ v.componentType = c.componentType
  /\ v.name = c.name
  /\ v.quality = c.quality
  /\ v.iterations = c.iterations

\* the variant differs from the current candidate in at most one parameter,
\* which is a selected key parameter
DiffersInOneKeyParamAtMost(v) ==
  LET diff == DiffParams(v.baseParams, currentComponent.baseParams)
  IN /\ Cardinality(diff) <= 1
     /\ \A n \in diff : \E k \in DOMAIN keyParams : keyParams[k] = n

VariantsLeaveCandidatesAlone ==
  /\ elements' = elements
  /\ pc = "evaluate" /\ pc' \in {"evaluate", "stagnation", "generate"} =>
       /\ currentComponent' = currentComponent
       /\ variants' = variants
       /\ \/ bestComponent' = bestComponent
          \/ /\ SameParams(bestComponent'.baseParams, variants[variant].baseParams)
             /\ SameButParams([bestComponent' EXCEPT !.quality = currentComponent.quality,
                                                     !.iterations = currentComponent.iterations],
                              currentComponent)
  /\ pc' = "evaluate" =>
       \A i \in DOMAIN variants' :
         /\ SameButParams(variants[i], currentComponent)'
         /\ DiffersInOneKeyParamAtMost(variants[i])'

C20_DistinctIdsGiveDistinctNames ==
  \A i, j \in DOMAIN elements :
    LET a == Descriptors[elements[i]]
        b == Descriptors[elements[j]]
    IN i < j /\ IsStr(a.id) /\ IsStr(b.id) /\ a.id.v # b.id.v =>
         /\ generateComponentName(a).name # generateComponentName(b).name
         /\ \A k \in ArtifactsOf(i), l \in ArtifactsOf(j) :
              components[k].name # components[l].name

\* the complexity of the element is a number of [0,1]: Math.log had an
\* argument of 1 at least
ComplexityInUnitInterval(element) == analyzeComplexity(element).area1 >= 1

\* the class of a complexity of [0,1]: below 0.3, above 0.7, or between
ComplexityClass(element) ==
  LET c == analyzeComplexity(element)
  IN IF ComplexityLt(c, 6) THEN "simple"
     ELSE IF ComplexityGt(c, 14) THEN "complex"
     ELSE IF ComplexityLt(c, 14) THEN "medium" ELSE "at 0.7"

\* C21: once performAdaptiveOptimization has read them for an element whose
\* complexity c is in [0,1], maxIterations is 5 for c < 0.3, 8 for
\* 0.3 <= c < 0.7 and 12 otherwise, and keyParams is the first 2 parameters
\* of the type's list for c < 0.3, the whole list for c > 0.7 and its first
\* ceil(n/2) parameters otherwise.
C21_BudgetAndParamsByComplexity ==
  pc \in {"iterate", "evaluate", "stagnation"} /\ ComplexityInUnitInterval(Element) =>
    LET class == ComplexityClass(Element)
        allParams == OptimizationParamsOf(Element.type)
        n == Len(allParams)
        half == IF n % 2 = 0 THEN n \div 2 ELSE n \div 2 + 1
    IN /\ class = "simple" => maxIterations = 5 /\ keyParams = SubSeq(allParams, 1, 2)
       /\ class = "medium" => maxIterations = 8 /\ keyParams = SubSeq(allParams, 1, half)
       /\ class = "at 0.7" => maxIterations = 12 /\ keyParams = SubSeq(allParams, 1, half)
       /\ class = "complex" => maxIterations = 12 /\ keyParams = allParams

\* a run for a complex element after runs for a simple one has begun
C21_Witness ==
  /\ pc = "evaluate"
  /\ ComplexityInUnitInterval(Element)
  /\ ComplexityClass(Element) = "complex"
  /\ maxIterations = 12
  /\ Len(keyParams) = 5

\* C22: while the variants of an iteration are evaluated, they are the ones
\* generateAdaptiveVariants made with the intensity
\* min(0.3, 0.05 + 0.15 * (iteration / maxIterations) + 0.05 * stagnationCount),
\* iteration being the 0-based index, and that intensity is in (0, 0.3].
C22_IntensityFormulaAndRange ==
  pc = "evaluate" =>
    LET hundredths == 5 * maxIterations + 15 * iteration
                      + 5 * stagnationCount * maxIterations
        capped == IF hundredths > 30 * maxIterations THEN 30 * maxIterations
                  ELSE hundredths
    IN /\ maxIterations > 0
       /\ variationIntensity.den > 0
       /\ variationIntensity.num * 100 * maxIterations = capped * variationIntensity.den
       /\ variationIntensity.num > 0
       /\ 10 * variationIntensity.num <= 3 * variationIntensity.den
       /\ variants = generateAdaptiveVariants(currentComponent, keyParams,
                                              variationIntensity).values

\* an iteration after the first, after one without improvement: the progress
\* and the stagnation both raise the intensity
C22_Witness ==
  /\ pc = "evaluate"
  /\ iteration >= 2
  /\ stagnationCount >= 1
  /\ 100 * variationIntensity.num > 5 * variationIntensity.den
       + 5 * stagnationCount * variationIntensity.den

\* '#' and six hexadecimal digits
IsHashHexColor(c) == Len(c) = 7 /\ Head(c) = "#" /\ IsHexColor(c)

\* the channel at the 0-based position i of the color, scaled by
\* 1 + sign * 0.3 * intensity, rounded, clamped to [0,255], as two digits
ScaledChannel(c, i, sign, intensity) ==
  LET channel == 16 * HexVal(c[i + 2]) + HexVal(c[i + 3])
      n == channel * (10 * intensity.den + sign * 3 * intensity.num)
      d == 10 * intensity.den
      rounded == (2 * n + d) \div (2 * d)
      clamped == IF rounded > 255 THEN 255 ELSE IF rounded < 0 THEN 0 ELSE rounded
  IN <<HexDigits[(clamped \div 16) + 1], HexDigits[(clamped % 16) + 1]>>

\* the color with each channel scaled
ScaledColor(c, sign, intensity) ==
  <<"#">> \o ScaledChannel(c, 0, sign, intensity)
          \o ScaledChannel(c, 2, sign, intensity)
          \o ScaledChannel(c, 4, sign, intensity)

\* C23: for the parameters color and backgroundColor alike,
\* generateParamVariations gives, for '#' and six hexadecimal digits, the
\* original, the lighter and the darker color, each channel scaled by
\* 1 + 0.3 * intensity or 1 - 0.3 * intensity, rounded and clamped to
\* [0,255]; for a value that is no color of six hexadecimal digits it gives
\* the original alone.
C23_ColorVariations ==
  call.fn = "generateParamVariations" /\ call.args[1] \in {"color", "backgroundColor"} =>
    LET c == call.args[2].v
        intensity == call.args[3]
    IN /\ ~result.threw
       /\ IsHashHexColor(c) =>
            /\ Len(result.values) = 3
            /\ result.values[1].v = c
            /\ result.values[2].v = ScaledColor(c, 1, intensity)
            /\ result.values[3].v = ScaledColor(c, -1, intensity)
       /\ ~IsHexColor(c) =>
            /\ Len(result.values) = 1
            /\ result.values[1].v = c

\* the unit of a size: what follows its last digit or point
RECURSIVE UnitSuffix(_)
UnitSuffix(s) ==
  IF s = <<>> \/ DecVal(s[Len(s)]) >= 0 \/ s[Len(s)] = "." THEN <<>>
  ELSE UnitSuffix(SubSeq(s, 1, Len(s) - 1)) \o <<s[Len(s)]>>

\* the size scaled by 1 + (factor / 100 - 1) * intensity, rounded
ScaledSize(size, factor, intensity) ==
  LET n == size * (100 * intensity.den + (factor - 100) * intensity.num)
      d == 100 * intensity.den
  IN (2 * n + d) \div (2 * d)

\* C24: for fontSize, generateParamVariations gives one value per factor
\* 0.8, 0.9, 0.95, 1.05, 1.1, 1.2: the leading integer of the current value
\* (14 when it has none) times the factor attenuated by the intensity,
\* rounded, followed by the unit of the current value when it is a string
\* that begins with an integer.
C24_FontSizeKeepsUnit ==
  call.fn = "generateParamVariations" /\ call.args[1] = "fontSize" =>
    LET currentValue == call.args[2]
        intensity == call.args[3]
        digits == IF IsStr(currentValue) THEN LeadingDigits(currentValue.v) ELSE 0
        size == IF IsNum(currentValue) THEN currentValue.v
                ELSE IF digits > 0 THEN DecValue(SubSeq(currentValue.v, 1, digits), 0)
                ELSE 14
        factors == <<80, 90, 95, 105, 110, 120>>
    IN /\ ~result.threw
       /\ Len(result.values) = 6
       /\ \A i \in 1..6 :
            LET number == DecDigits(ScaledSize(size, factors[i], intensity))
                text == result.values[i].v
            IN /\ result.values[i].t = "string"
               /\ SubSeq(text, 1, Len(number)) = number
               /\ digits > 0 =>
                    SubSeq(text, Len(number) + 1, Len(text)) = UnitSuffix(currentValue.v)

\* the content checks evaluateContentMatch performs: the fields that are
\* set, and not empty, on both sides
ContentChecks(params, properties) ==
  {n \in {"title", "text", "value"} : Truthy(properties.v[n]) /\ Truthy(params[n])}

\* C25: evaluateContentMatch gives 1.0 when at least one of title, text and
\* value is present on both sides and every field present on both sides
\* matches exactly, whatever the fields present, and 0.5 when none is present
\* on both sides.
C25_ContentScoreOverPerformedChecks ==
  call.fn = "evaluateContentMatch" =>
    LET params == call.args[1]
        properties == call.args[2]
        checks == ContentChecks(params, properties)
    IN /\ IsNumber(result)
       /\ checks = {} => result.v = ScoreScale \div 2
       /\ checks # {} /\ (\A n \in checks : Same(properties.v[n], params[n]))
            => result.v = ScoreScale

\* C26: the candidate performAdaptiveOptimization returns does not score
\* lower under evaluateComponentQualityStrict than the candidate
\* performBasicMapping made of the element.
C26_ReturnedNotWorseThanBase ==
  pc = "generate" /\ outcome \in Outcomes =>
    LET base == performBasicMapping(Element).component
    IN ~ScGt(evaluateComponentQualityStrict(base, Element),
             evaluateComponentQualityStrict(optimizedComponent, Element))

\* the classes of complexity in their order
ComplexityRank(element) ==
  LET class == ComplexityClass(element)
  IN IF class = "simple" THEN 1 ELSE IF class = "complex" THEN 3 ELSE 2

HasOptimizationParams(type) ==
  RowOf(type) # 0 /\ Catalogue[RowOf(type)].optimizationParams # <<>>

C28_RegenerateIsEventuallyRun ==
  \A job \in 1..MaxJobs : (job \in regenerate) ~> (job \notin regenerate)

\* the job has reached the status 'completed' or 'failed'
JobDone(job) ==
  job \in DOMAIN processingQueue /\ processingQueue[job] \in {"completed", "failed"}

JobQueued(job) ==
  job \in DOMAIN processingQueue /\ processingQueue[job] = "queued"

\* C29 as stated: when the awaits settle and the timers run out, a job that
\* is in the queue with the status 'queued' eventually has the status
\* 'completed' or 'failed'.
C29_QueuedJobEventuallyDone ==
  \A job \in 1..MaxJobs : JobQueued(job) ~> JobDone(job)

\* C29, amended: when the awaits settle, the timers run out and the
\* POST /generate requests come to an end, a job that is in the queue with
\* the status 'queued' eventually has the status 'completed' or 'failed'.
C29_QueuedJobDoneOnceGenerateStops ==
  \A job \in 1..MaxJobs :
    <>[][~Generate]_vars => (JobQueued(job) ~> JobDone(job))

\* three jobs have been processed, the last one through the timer
C29_Witness ==
  /\ Len(processingQueue) = 3
  /\ \A job \in 1..3 : JobDone(job)
  /\ ~isProcessing
  /\ timers = 0

\* the task is waiting in the queue
InQueue(task) == \E k \in DOMAIN transformerQueue : transformerQueue[k] = task

\* transformFile has been called with the task, once
TransformedOnce(task) == task \in DOMAIN tasks /\ tasks[task].calls = 1

\* what holds of the transformer in every state
TransformerSafe ==
  /\ \A task \in DOMAIN tasks :
       tasks[task].calls = IF InQueue(task) THEN 0 ELSE 1
  /\ Cardinality(loops) <= 1
  /\ (~transformerIsProcessing => transformerQueue = <<>> /\ loops = {})

\* C30: every task given to addToQueue is passed to transformFile exactly
\* once, whether it was added with the flag down or while processQueue was
\* running: never twice, not before it leaves the queue, and once in the end;
\* at most one loop of processQueue is active at a time; and whenever
\* isProcessing is false the queue is empty.
C30_EveryTaskTransformedOnce ==
  /\ []TransformerSafe
  /\ \A task \in 1..MaxTasks : (task \in DOMAIN tasks) ~> TransformedOnce(task)

\* three tasks, one added with the flag down and one while the loop was
\* running, all transformed, and the loop has ended
C30_Witness ==
  /\ Len(tasks) >= 3
  /\ \A task \in DOMAIN tasks : tasks[task].calls = 1 /\ tasks[task].result # "none"
  /\ \E task \in DOMAIN tasks : tasks[task].whileProcessing
  /\ \E task \in DOMAIN tasks : ~tasks[task].whileProcessing
  /\ ~transformerIsProcessing
  /\ loops = {}

====
